---- MODULE Spec2Model ----
(***************************************************************************)
(* Model of yuha's MessageChannel (crates/core/src/message_channel.rs):    *)
(* length-prefixed framing over a duplex byte stream, and the request /    *)
(* response envelope on top of it.                                         *)
(*                                                                         *)
(* Two channel ends, "client" and "server", are connected by a duplex      *)
(* stream.  Each end owns a read_buffer; the stream `inner` of an end is   *)
(* modelled by the bytes the end has written but the stream has not yet    *)
(* pushed out (pending), the bytes in flight to the peer (wire), and the   *)
(* flags broken (the write half has reported an I/O error) and closed      *)
(* (the end has dropped its stream).                                       *)
(***************************************************************************)
EXTENDS Integers, Sequences, FiniteSets, TLC

VARIABLES
    pc,           \* pc[e]: the await point the call running on end e is at
    call,         \* call[e]: which call runs on end e, for whom, with what value
    arg,          \* arg[e]: the payload of the send call running on end e
    read_buffer,  \* read_buffer[e]: MessageChannel.read_buffer of end e
    pending,      \* pending[e]: bytes e wrote that the stream still holds back
    wire,         \* wire[e]: bytes written by e, in flight to Peer(e)
    broken,       \* broken[e]: the write half of e's stream has failed
    closed,       \* closed[e]: e has dropped its channel (and stream)
    nreads,       \* nreads[e]: reads done by the receive call running on e
    out,          \* history: every byte e ever handed to its stream
    sendlog,      \* history: the completed send calls of e, with results
    recvlog,      \* history: the completed receive calls of e, with results
    name,         \* the transport name handed to from_str
    parsed,       \* what from_str returned for name
    shown,        \* to_string() of the connection's transport type
    caps,         \* for_transport_type() of the connection's transport type
    state         \* the ConnectionState of the connection

\* The variables of the two channel ends, and those of the transport.
cvars == <<pc, call, arg, read_buffer, pending, wire, broken, closed, nreads,
           out, sendlog, recvlog>>

tvars == <<name, parsed, shown, caps, state>>

vars == <<cvars, tvars>>

----------------------------------------------------------------------------
(* Bounds of the model                                                     *)

MaxLen == 2       \* small payloads have 0..MaxLen bytes
MaxSends == 2     \* send calls per end
MaxFaults == 1    \* I/O errors the stream comes up with
FineWire == 4     \* up to this many bytes in flight, a read may take any part

MaxRecvs == MaxSends + 1     \* receive calls per end

----------------------------------------------------------------------------
(* Program constants                                                       *)

U16Max == 65535

Ends == {"client", "server"}

Peer(e) == IF e = "client" THEN "server" ELSE "client"

----------------------------------------------------------------------------
(* Payloads                                                                *)

Fill(len) == [i \in 1..len |-> i % 256]

\* A payload that reads like the header of an empty frame.
ZeroPair == <<0, 0>>

\* Short payloads: one of every length, its bytes all different, and the
\* pair of zero bytes.
SmallPayloads == {Fill(n) : n \in 0..MaxLen} \cup {ZeroPair}

\* One byte more than a frame can carry.
Oversize == Fill(U16Max + 1)

Payloads == SmallPayloads \cup {Oversize}

\* The sizes around the limits of the two header bytes.
LimitLens == {0, 1, 255, 256, U16Max, U16Max + 1}

LimitPayloads == {Fill(n) : n \in LimitLens}

Take(s, k) == SubSeq(s, 1, k)

Drop(s, k) == SubSeq(s, k + 1, Len(s))

----------------------------------------------------------------------------
(* send: the size check and the header                                     *)

\* Mutant: the check lets one byte too many through.
TooLargeOffByOne(payload_len) == payload_len > U16Max + 1

\* Line 50: payload_len > u16::MAX as usize.
TooLarge(payload_len) == payload_len > U16Max

\* Line 61: payload_len as u16.
U16Cast(n) == n % 65536

\* Mutant: the length is written low byte first.
LeBytes(v) == <<v % 256, v \div 256>>

\* write_u16 writes its argument big-endian.
BeBytes(v) == <<v \div 256, v % 256>>

Header(payload) == BeBytes(U16Cast(Len(payload)))

----------------------------------------------------------------------------
(* receive_binary: the check at the top of the loop                        *)

PayloadLen(buf) == buf[1] * 256 + buf[2]

\* Mutant: a frame counts as complete when a byte has come after it.
HasFrameAfterNextByte(buf) == Len(buf) >= 2 /\ Len(buf) > 2 + PayloadLen(buf)

HasFrame(buf) == Len(buf) >= 2 /\ Len(buf) >= 2 + PayloadLen(buf)

\* Mutant: the last byte of the payload is left out of what is returned.
FramePayloadShort(buf) == SubSeq(buf, 3, 1 + PayloadLen(buf))

\* Lines 147-150: advance(2), then split_to(payload_len) is the payload.
FramePayload(buf) == SubSeq(buf, 3, 2 + PayloadLen(buf))

\* Mutant: the header is not advanced over, only payload_len bytes go.
AfterFrameNoAdvance(buf) == Drop(buf, PayloadLen(buf))

\* Mutant: the frame stays in the buffer when it is returned.
AfterFrameKept(buf) == buf

\* Mutant: the buffer is emptied when a frame is returned.
AfterFrameCleared(buf) == <<>>

\* Lines 147-150: what stays in read_buffer, all after the 2 + L bytes.
AfterFrame(buf) == Drop(buf, 2 + PayloadLen(buf))

----------------------------------------------------------------------------
(* The stream: how many bytes one read may deliver out of n bytes in       *)
(* flight, and how many bytes of an n-byte write a failing write may have  *)
(* taken.  Short runs are split at every place, long ones near their end.  *)

ReadSizes(n) ==
    IF n <= FineWire THEN 1..n ELSE {n, n - FineWire}

\* The reads of the exchange specification: all n bytes in flight, or all
\* but the last, which splits every frame once.
CoarseSizes(n) == {k \in {n - 1, n} : k >= 1}

PartialSizes(n) ==
    IF n <= FineWire THEN 0..(n - 1) ELSE {0, 1, n - 1}

----------------------------------------------------------------------------
(* Calls and their results                                                 *)

NoValue == [tag |-> "None"]

\* No call runs.
NoCall == [api |-> "none", caller |-> "none", value |-> NoValue]

\* A call of send or receive, which carry no structured value.
RawCall(api) == [api |-> api, caller |-> "main", value |-> NoValue]

\* The place of the next completed call in the order of the calls of e.
NextSeq(e) == Len(sendlog[e]) + Len(recvlog[e]) + 1

\* The entry of a send call in sendlog: the call, its payload (an oversize
\* one is recorded by its size alone), the Result's kind.
SendEntry(e, c, payload, kind) ==
    [api |-> c.api, caller |-> c.caller, value |-> c.value,
     payload |-> IF kind = "BufferOverflow" THEN <<>> ELSE payload,
     kind |-> kind, size |-> Len(payload), seq |-> NextSeq(e)]

\* What a receive call returns: a payload, a decoded value, or an error.
RecvOk(payload) ==
    [kind |-> "Ok", payload |-> payload, value |-> NoValue, reason |-> ""]

RecvErr(kind) ==
    [kind |-> kind, payload |-> <<>>, value |-> NoValue, reason |-> ""]

\* The entry of a receive call in recvlog.
RecvEntry(e, c, r) ==
    [api |-> c.api, caller |-> c.caller, kind |-> r.kind,
     payload |-> r.payload, value |-> r.value, reason |-> r.reason,
     seq |-> NextSeq(e)]

----------------------------------------------------------------------------
(* The envelope: requests, responses and their encoding.  The types        *)
(* ProtocolRequest and ProtocolResponse are of crate::protocol; a response  *)
(* is Success, Error {message} or Data {items}.  Text is a sequence of     *)
(* character codes; the encoding is serde_json's, JSON text.               *)

GetClipboard == [tag |-> "Request", op |-> <<103, 101, 116, 95, 99, 108, 105, 112, 98, 111, 97, 114, 100>>]

SetClipboard == [tag |-> "Request", op |-> <<115, 101, 116, 95, 99, 108, 105, 112, 98, 111, 97, 114, 100>>]

Bogus == [tag |-> "Request", op |-> <<98, 111, 103, 117, 115>>]

Requests == {GetClipboard, SetClipboard, Bogus}

Success == [tag |-> "Success"]

Error(message) == [tag |-> "Error", message |-> message]

Data(items) == [tag |-> "Data", items |-> items]

\* What the server answers to a request.
Handle(request) ==
    CASE request = GetClipboard -> Data(<<<<104, 101, 108, 108, 111>>>>)
      [] request = SetClipboard -> Success
      [] OTHER -> Error(<<117, 110, 107, 110, 111, 119, 110, 32, 111, 112, 101, 114, 97, 116, 105, 111, 110>>)

Responses == {Handle(request) : request \in Requests}

\* A text of U16Max letters: a value that holds it has an encoding longer
\* than a frame can carry.
LongText == [i \in 1..U16Max |-> 97]

LongRequest == [tag |-> "Request", op |-> LongText]

LongResponse == Error(LongText)

\* A value serde_json::to_vec returns an error for, as a request and as a
\* response.
Unencodable == [tag |-> "Unencodable"]

CanEncode(value) == value.tag # "Unencodable"

\* A JSON string: quotes and backslashes are escaped, quotes put around.
RECURSIVE Escape(_)
Escape(text) ==
    IF \A i \in 1..Len(text) : text[i] \notin {34, 92} THEN text
    ELSE (IF Head(text) \in {34, 92} THEN <<92, Head(text)>> ELSE <<Head(text)>>)
         \o Escape(Tail(text))

JsonString(text) == <<34>> \o Escape(text) \o <<34>>

\* The elements of a JSON array, separated by commas.
RECURSIVE JsonStrings(_)
JsonStrings(items) ==
    IF items = <<>> THEN <<>>
    ELSE JsonString(Head(items))
         \o (IF Tail(items) = <<>> THEN <<>> ELSE <<44>> \o JsonStrings(Tail(items)))

\* serde_json::to_vec(request): {"op":"..."}
EncodeRequest(request) == <<123, 34, 111, 112, 34, 58>> \o JsonString(request.op) \o <<125>>

\* serde_json::to_vec(response): "Success", {"Error":{"message":"..."}}
\* or {"Data":{"items":[...]}}
EncodeResponse(response) ==
    CASE response.tag = "Success" -> JsonString(<<83, 117, 99, 99, 101, 115, 115>>)
      [] response.tag = "Error" -> <<123, 34, 69, 114, 114, 111, 114, 34, 58, 123, 34, 109, 101, 115, 115, 97, 103, 101, 34, 58>> \o JsonString(response.message) \o <<125, 125>>
      [] response.tag = "Data" -> <<123, 34, 68, 97, 116, 97, 34, 58, 123, 34, 105, 116, 101, 109, 115, 34, 58, 91>> \o JsonStrings(response.items) \o <<93, 125, 125>>

\* The Serialization error of lines 95-98 and 129-132.
DecodeErr(reason) ==
    [kind |-> "Serialization", payload |-> <<>>, value |-> NoValue, reason |-> reason]

\* serde_json::from_slice(&payload) of line 93: the request whose encoding
\* the payload is, or the Serialization error.
DecodedRequest(payload) ==
    IF \E v \in Requests : EncodeRequest(v) = payload
    THEN [kind |-> "Ok", payload |-> payload,
          value |-> CHOOSE v \in Requests : EncodeRequest(v) = payload, reason |-> ""]
    ELSE DecodeErr("Request deserialization failed")

\* serde_json::from_slice(&payload) of line 127: the response whose
\* encoding the payload is, or the Serialization error.
DecodedResponse(payload) ==
    IF \E v \in Responses : EncodeResponse(v) = payload
    THEN [kind |-> "Ok", payload |-> payload,
          value |-> CHOOSE v \in Responses : EncodeResponse(v) = payload, reason |-> ""]
    ELSE DecodeErr("Response deserialization failed")

\* What the call of api returns to its caller when receive has returned
\* payload: lines 85-88, 91-100 and 125-134.
Received(api, payload) ==
    CASE api = "receive_request" ->
            DecodedRequest(payload)
      [] api = "receive_response" ->
            DecodedResponse(payload)
      [] OTHER -> RecvOk(payload)

\* Mutant: at the end of the stream, what the buffer holds of the payload
\* is returned.
EofResultTruncated(buf) ==
    IF Len(buf) >= 2 THEN RecvOk(Drop(buf, 2)) ELSE RecvErr("ChannelClosed")

\* Lines 159-161: what receive_binary returns when a read yields 0 bytes
\* while the buffer holds buf.
EofResult(buf) == RecvErr("ChannelClosed")

----------------------------------------------------------------------------
(* Transport types (transport/types.rs).  A string is the sequence of its  *)
(* characters' code points.                                                *)

\* enum TransportType, lines 42-51.
TransportTypes == {"Ssh", "Local", "Tcp", "Wsl"}

STR_SSH == <<115, 115, 104>>
STR_LOCAL == <<108, 111, 99, 97, 108>>
STR_TCP == <<116, 99, 112>>
STR_WSL == <<119, 115, 108>>
STR_UNKNOWN == <<85, 110, 107, 110, 111, 119, 110, 32, 116, 114, 97, 110, 115, 112, 111, 114, 116, 32, 116, 121, 112, 101, 58, 32>>

\* char::to_lowercase: A..Z go to a..z, the Kelvin sign to k, the dotted
\* capital I (U+0130) to i and a combining dot; the other characters of
\* the model's strings have no other lowercase form.
LowerChar(ch) ==
    IF ch \in 65..90 THEN <<ch + 32>>
    ELSE IF ch = 8490 THEN <<107>>
    ELSE IF ch = 304 THEN <<105, 775>>
    ELSE <<ch>>

\* str::to_lowercase of line 68.
RECURSIVE ToLowercase(_)
ToLowercase(s) ==
    IF s = <<>> THEN <<>> ELSE LowerChar(Head(s)) \o ToLowercase(Tail(s))

\* Display for TransportType, lines 53-62.
TypeToString(t) ==
    CASE t = "Ssh" -> STR_SSH
      [] t = "Local" -> STR_LOCAL
      [] t = "Tcp" -> STR_TCP
      [] t = "Wsl" -> STR_WSL

\* Ok(t) and Err(ConfigurationError { reason }) of lines 69-75.
ParseOk(t) == [kind |-> "Ok", type |-> t, reason |-> <<>>]

ParseErr(reason) == [kind |-> "ConfigurationError", type |-> "none", reason |-> reason]

\* Mutant: the match is on s itself.
FromStrCaseSensitive(s) ==
    CASE s = STR_SSH -> ParseOk("Ssh")
      [] s = STR_LOCAL -> ParseOk("Local")
      [] s = STR_TCP -> ParseOk("Tcp")
      [] s = STR_WSL -> ParseOk("Wsl")
      [] OTHER -> ParseErr(STR_UNKNOWN \o s)

\* FromStr for TransportType, lines 64-78.
FromStr(s) ==
    LET lower == ToLowercase(s)
    IN  CASE lower = STR_SSH -> ParseOk("Ssh")
          [] lower = STR_LOCAL -> ParseOk("Local")
          [] lower = STR_TCP -> ParseOk("Tcp")
          [] lower = STR_WSL -> ParseOk("Wsl")
          [] OTHER -> ParseErr(STR_UNKNOWN \o s)

\* struct TransportCapabilities, lines 109-122.
Capabilities(au, pf, se, ps, re, mu) ==
    [auto_upload |-> au, port_forwarding |-> pf, secure |-> se,
     platform_specific |-> ps, reconnectable |-> re, multiplexing |-> mu]

\* Mutant: a TCP connection counts as secure.
ForTransportTypeTcpSecure(t) ==
    CASE t = "Ssh" -> Capabilities(TRUE, TRUE, TRUE, FALSE, TRUE, TRUE)
      [] t = "Local" -> Capabilities(FALSE, FALSE, FALSE, FALSE, FALSE, FALSE)
      [] t = "Tcp" -> Capabilities(FALSE, FALSE, TRUE, FALSE, TRUE, FALSE)
      [] t = "Wsl" -> Capabilities(FALSE, FALSE, FALSE, TRUE, FALSE, FALSE)

\* Mutant: a local connection counts as reconnectable.
ForTransportTypeLocalReconnects(t) ==
    CASE t = "Ssh" -> Capabilities(TRUE, TRUE, TRUE, FALSE, TRUE, TRUE)
      [] t = "Local" -> Capabilities(FALSE, FALSE, FALSE, FALSE, TRUE, FALSE)
      [] t = "Tcp" -> Capabilities(FALSE, FALSE, FALSE, FALSE, TRUE, FALSE)
      [] t = "Wsl" -> Capabilities(FALSE, FALSE, FALSE, TRUE, FALSE, FALSE)

\* TransportCapabilities::for_transport_type, lines 126-161.
ForTransportType(t) ==
    CASE t = "Ssh" -> Capabilities(TRUE, TRUE, TRUE, FALSE, TRUE, TRUE)
      [] t = "Local" -> Capabilities(FALSE, FALSE, FALSE, FALSE, FALSE, FALSE)
      [] t = "Tcp" -> Capabilities(FALSE, FALSE, FALSE, FALSE, TRUE, FALSE)
      [] t = "Wsl" -> Capabilities(FALSE, FALSE, FALSE, TRUE, FALSE, FALSE)

\* enum ConnectionState, lines 82-93.
ConnectionStates == {"Disconnected", "Connecting", "Connected", "Failed", "Reconnecting"}

\* Nothing parsed, shown or looked up yet.
NotParsed == [kind |-> "none", type |-> "none", reason |-> <<>>]

NoCapabilities == [kind |-> "none"]

\* The spellings of word in upper and lower case letters.
RECURSIVE CaseVariants(_)
CaseVariants(word) ==
    IF word = <<>> THEN {<<>>}
    ELSE {<<ch>> \o rest : ch \in {Head(word), Head(word) - 32},
                           rest \in CaseVariants(Tail(word))}

\* Names that are no transport type: the empty name, "bogus", names with
\* a character too many or too few or a blank, and names written with the
\* long s (U+017F), the Kelvin sign and the dotted capital I.
OtherNames ==
    {<<>>, <<98, 111, 103, 117, 115>>, <<66, 79, 71, 85, 83>>, <<115, 115, 104, 120>>, <<115, 115>>, <<32, 115, 115, 104>>, <<116, 99, 112, 32>>, <<115, 115, 104, 50>>, <<116, 99, 112, 105, 112>>, <<108, 111, 99, 97, 108, 32, 104, 111, 115, 116>>,
     <<383, 115, 104>>, <<115, 383, 104>>, <<8490, 115, 104>>, <<119, 115, 304>>}

Names ==
    CaseVariants(STR_SSH) \cup CaseVariants(STR_LOCAL) \cup CaseVariants(STR_TCP)
    \cup CaseVariants(STR_WSL) \cup OtherNames

\* No name given, no connection yet.
TransportIdle ==
    /\ name = <<>>
    /\ parsed = NotParsed
    /\ shown = <<>>
    /\ caps = NoCapabilities
    /\ state = "Disconnected"

----------------------------------------------------------------------------
\* The two channel ends after new_with_stream (lines 38-43).
ChannelInit ==
    /\ pc = [e \in Ends |-> "idle"]
    /\ call = [e \in Ends |-> NoCall]
    /\ arg = [e \in Ends |-> <<>>]
    /\ read_buffer = [e \in Ends |-> <<>>]
    /\ pending = [e \in Ends |-> <<>>]
    /\ wire = [e \in Ends |-> <<>>]
    /\ broken = [e \in Ends |-> FALSE]
    /\ closed = [e \in Ends |-> FALSE]
    /\ nreads = [e \in Ends |-> 0]
    /\ out = [e \in Ends |-> <<>>]
    /\ sendlog = [e \in Ends |-> <<>>]
    /\ recvlog = [e \in Ends |-> <<>>]

Init == ChannelInit /\ TransportIdle

----------------------------------------------------------------------------
(* send (message_channel.rs 46-82), one action per await point             *)

\* send is entered by call c with payload: the size check of lines 50-57
\* returns BufferOverflow at once, or the writes begin.
StartSend(e, c, payload) ==
    /\ pc[e] = "idle"
    /\ Len(sendlog[e]) < MaxSends
    /\ IF TooLarge(Len(payload))
       THEN /\ sendlog' = [sendlog EXCEPT ![e] = Append(@, SendEntry(e, c, payload, "BufferOverflow"))]
            /\ UNCHANGED <<pc, call, arg>>
       ELSE /\ pc' = [pc EXCEPT ![e] = "write_u16"]
            /\ call' = [call EXCEPT ![e] = c]
            /\ arg' = [arg EXCEPT ![e] = payload]
            /\ UNCHANGED sendlog
    /\ UNCHANGED <<read_buffer, pending, wire, broken, closed, nreads, out, recvlog>>
    /\ UNCHANGED tvars

\* send(payload), lines 46-82.
SendCall(e, payload) == StartSend(e, RawCall("send"), payload)

\* self.inner.write_u16(payload_len as u16).await succeeds.
WriteU16(e) ==
    /\ pc[e] = "write_u16"
    /\ ~broken[e]
    /\ pending' = [pending EXCEPT ![e] = @ \o Header(arg[e])]
    /\ out' = [out EXCEPT ![e] = @ \o Header(arg[e])]
    /\ pc' = [pc EXCEPT ![e] = "write_all"]
    /\ UNCHANGED <<call, arg, read_buffer, wire, broken, closed, nreads, sendlog, recvlog>>
    /\ UNCHANGED tvars

\* self.inner.write_all(&payload).await succeeds.
WriteAll(e) ==
    /\ pc[e] = "write_all"
    /\ ~broken[e]
    /\ pending' = [pending EXCEPT ![e] = @ \o arg[e]]
    /\ out' = [out EXCEPT ![e] = @ \o arg[e]]
    /\ pc' = [pc EXCEPT ![e] = "flush"]
    /\ UNCHANGED <<call, arg, read_buffer, wire, broken, closed, nreads, sendlog, recvlog>>
    /\ UNCHANGED tvars

\* Mutant: send returns Ok without the flush.
FlushSkipped(e) ==
    /\ pc[e] = "flush"
    /\ ~broken[e]
    /\ sendlog' = [sendlog EXCEPT ![e] = Append(@, SendEntry(e, call[e], arg[e], "Ok"))]
    /\ pc' = [pc EXCEPT ![e] = "idle"]
    /\ call' = [call EXCEPT ![e] = NoCall]
    /\ arg' = [arg EXCEPT ![e] = <<>>]
    /\ UNCHANGED <<read_buffer, pending, wire, broken, closed, nreads, out, recvlog>>
    /\ UNCHANGED tvars

\* self.inner.flush().await succeeds: all that was written is in flight,
\* and send returns Ok.
Flush(e) ==
    /\ pc[e] = "flush"
    /\ ~broken[e]
    /\ wire' = [wire EXCEPT ![e] = @ \o pending[e]]
    /\ pending' = [pending EXCEPT ![e] = <<>>]
    /\ sendlog' = [sendlog EXCEPT ![e] = Append(@, SendEntry(e, call[e], arg[e], "Ok"))]
    /\ pc' = [pc EXCEPT ![e] = "idle"]
    /\ call' = [call EXCEPT ![e] = NoCall]
    /\ arg' = [arg EXCEPT ![e] = <<>>]
    /\ UNCHANGED <<read_buffer, broken, closed, nreads, out, recvlog>>
    /\ UNCHANGED tvars

\* The I/O errors the stream has come up with so far: a write half fails
\* once and for all, a read may fail at any time.
Faults ==
    Cardinality({e \in Ends : broken[e]})
    + Cardinality({<<e, i>> \in Ends \X (1..MaxRecvs) :
                      i <= Len(recvlog[e]) /\ recvlog[e][i].kind = "Io"})

\* What the call running on e is handing to the stream at its await point.
Writing(e) ==
    CASE pc[e] = "write_u16" -> Header(arg[e])
      [] pc[e] = "write_all" -> arg[e]
      [] OTHER -> <<>>

\* How many bytes a failing write may have taken: less than all of them
\* (write_all of nothing and flush write nothing), and nothing once the
\* write half has failed.
FailSizes(e) ==
    IF broken[e] THEN {0}
    ELSE IF Faults >= MaxFaults THEN {}
    ELSE IF Writing(e) = <<>> THEN {0}
    ELSE PartialSizes(Len(Writing(e)))

\* A write or the flush returns an I/O error (the `?` of lines 66, 72, 78):
\* the stream has taken k bytes of what was being written, send returns
\* the error.  A write half that failed once fails from then on, and
\* takes nothing more.
WriteFail(e, k) ==
    /\ pc[e] \in {"write_u16", "write_all", "flush"}
    /\ k \in FailSizes(e)
    /\ pending' = [pending EXCEPT ![e] = @ \o Take(Writing(e), k)]
    /\ out' = [out EXCEPT ![e] = @ \o Take(Writing(e), k)]
    /\ broken' = [broken EXCEPT ![e] = TRUE]
    /\ sendlog' = [sendlog EXCEPT ![e] = Append(@, SendEntry(e, call[e], arg[e], "Io"))]
    /\ pc' = [pc EXCEPT ![e] = "idle"]
    /\ call' = [call EXCEPT ![e] = NoCall]
    /\ arg' = [arg EXCEPT ![e] = <<>>]
    /\ UNCHANGED <<read_buffer, wire, closed, nreads, recvlog>>
    /\ UNCHANGED tvars

\* The stream pushes out what it holds without being asked to.
Transmit(e) ==
    /\ pending[e] # <<>>
    /\ ~closed[e]
    /\ wire' = [wire EXCEPT ![e] = @ \o pending[e]]
    /\ pending' = [pending EXCEPT ![e] = <<>>]
    /\ UNCHANGED <<pc, call, arg, read_buffer, broken, closed, nreads, out, sendlog, recvlog>>
    /\ UNCHANGED tvars

\* The owner of end e drops the channel: the stream is closed, what it
\* still held back is lost.
Close(e) ==
    /\ pc[e] = "idle"
    /\ ~closed[e]
    /\ closed' = [closed EXCEPT ![e] = TRUE]
    /\ pending' = [pending EXCEPT ![e] = <<>>]
    /\ pc' = [pc EXCEPT ![e] = "dropped"]
    /\ UNCHANGED <<call, arg, read_buffer, wire, broken, nreads, out, sendlog, recvlog>>
    /\ UNCHANGED tvars

----------------------------------------------------------------------------
(* receive / receive_binary (message_channel.rs 85-88, 136-163)            *)

\* receive_binary is entered by call c.
StartReceive(e, c) ==
    /\ pc[e] = "idle"
    /\ Len(recvlog[e]) < MaxRecvs
    /\ pc' = [pc EXCEPT ![e] = "receive_binary"]
    /\ call' = [call EXCEPT ![e] = c]
    /\ nreads' = [nreads EXCEPT ![e] = 0]
    /\ UNCHANGED <<arg, read_buffer, pending, wire, broken, closed, out, sendlog, recvlog>>
    /\ UNCHANGED tvars

\* receive(), lines 85-88.
ReceiveCall(e) == StartReceive(e, RawCall("receive"))

\* The call running on e returns r.
Return(e, r) ==
    /\ recvlog' = [recvlog EXCEPT ![e] = Append(@, RecvEntry(e, call[e], r))]
    /\ pc' = [pc EXCEPT ![e] = "idle"]
    /\ call' = [call EXCEPT ![e] = NoCall]

\* Lines 139-153: the buffer holds a complete frame; it is cut off the
\* front of the buffer and its payload returned to the caller of
\* receive_binary.
ReturnFrame(e) ==
    /\ pc[e] = "receive_binary"
    /\ HasFrame(read_buffer[e])
    /\ Return(e, Received(call[e].api, FramePayload(read_buffer[e])))
    /\ read_buffer' = [read_buffer EXCEPT ![e] = AfterFrame(@)]
    /\ UNCHANGED <<arg, pending, wire, broken, closed, nreads, out, sendlog>>
    /\ UNCHANGED tvars

\* Line 157: read_buf appends k > 0 bytes to the buffer; the loop goes on.
ReadBuf(e, k) ==
    /\ pc[e] = "receive_binary"
    /\ ~HasFrame(read_buffer[e])
    /\ k \in 1..Len(wire[Peer(e)])
    /\ read_buffer' = [read_buffer EXCEPT ![e] = @ \o Take(wire[Peer(e)], k)]
    /\ wire' = [wire EXCEPT ![Peer(e)] = Drop(@, k)]
    /\ nreads' = [nreads EXCEPT ![e] = @ + 1]
    /\ UNCHANGED <<pc, call, arg, pending, broken, closed, out, sendlog, recvlog>>
    /\ UNCHANGED tvars

\* Mutant: the stream is read before the buffer is looked at, so that its
\* end is found while a frame is buffered.
ReadEofFirst(e) ==
    /\ pc[e] = "receive_binary"
    /\ wire[Peer(e)] = <<>>
    /\ closed[Peer(e)]
    /\ Return(e, RecvErr("ChannelClosed"))
    /\ UNCHANGED <<arg, read_buffer, pending, wire, broken, closed, nreads, out, sendlog>>
    /\ UNCHANGED tvars

\* Lines 157-161: read_buf yields 0 bytes, the peer has closed the stream.
ReadEof(e) ==
    /\ pc[e] = "receive_binary"
    /\ ~HasFrame(read_buffer[e])
    /\ wire[Peer(e)] = <<>>
    /\ closed[Peer(e)]
    /\ Return(e, EofResult(read_buffer[e]))
    /\ UNCHANGED <<arg, read_buffer, pending, wire, broken, closed, nreads, out, sendlog>>
    /\ UNCHANGED tvars

\* Line 157: read_buf returns an I/O error, which `?` returns.
ReadFail(e) ==
    /\ pc[e] = "receive_binary"
    /\ ~HasFrame(read_buffer[e])
    /\ Faults < MaxFaults
    /\ Return(e, RecvErr("Io"))
    /\ UNCHANGED <<arg, read_buffer, pending, wire, broken, closed, nreads, out, sendlog>>
    /\ UNCHANGED tvars

\* What the log keeps of a receive call that was dropped: the bytes the
\* buffer held then.
Cancelled(buf) == [kind |-> "Cancelled", payload |-> buf, value |-> NoValue, reason |-> ""]

\* Mutant: the bytes read so far go with the call that is dropped.
CancelLosesBuffer(e) ==
    /\ pc[e] = "receive_binary"
    /\ ~HasFrame(read_buffer[e])
    /\ Return(e, Cancelled(read_buffer[e]))
    /\ read_buffer' = [read_buffer EXCEPT ![e] = <<>>]
    /\ UNCHANGED <<arg, pending, wire, broken, closed, nreads, out, sendlog>>
    /\ UNCHANGED tvars

\* The caller drops the future of a receive call that is suspended in
\* read_buf (line 157): the call ends without a result; read_buffer, a
\* field of the channel (lines 21-24), stays as it is.
Cancel(e) ==
    /\ pc[e] = "receive_binary"
    /\ ~HasFrame(read_buffer[e])
    /\ Return(e, Cancelled(read_buffer[e]))
    /\ UNCHANGED <<arg, read_buffer, pending, wire, broken, closed, nreads, out, sendlog>>
    /\ UNCHANGED tvars

----------------------------------------------------------------------------
(* The envelope calls (message_channel.rs 90-134)                          *)

\* The Serialization error of lines 106-108 and 117-119 as the result of
\* call c.
EncodeErrEntry(e, c, reason) ==
    [api |-> c.api, caller |-> c.caller, value |-> c.value, payload |-> <<>>,
     kind |-> "Serialization", size |-> 0, seq |-> NextSeq(e), reason |-> reason]

\* serde_json::to_vec fails in call c: map_err and `?` of lines 104-109
\* and 115-120 return the error, send is not called.
EncodeFail(e, c, reason) ==
    /\ pc[e] = "idle"
    /\ Len(sendlog[e]) < MaxSends
    /\ sendlog' = [sendlog EXCEPT ![e] = Append(@, EncodeErrEntry(e, c, reason))]
    /\ UNCHANGED <<pc, call, arg, read_buffer, pending, wire, broken, closed, nreads,
                   out, recvlog>>
    /\ UNCHANGED tvars

\* Mutant: when the request cannot be encoded, an empty payload is sent.
SendRequestEmptyOnFailure(e, c, request) ==
    StartSend(e, [api |-> "send_request", caller |-> c, value |-> request],
              IF CanEncode(request) THEN EncodeRequest(request) ELSE <<>>)

\* send_request(request) of caller c: encode, then send.
SendRequest(e, c, request) ==
    LET this == [api |-> "send_request", caller |-> c, value |-> request]
    IN  IF CanEncode(request)
        THEN StartSend(e, this, EncodeRequest(request))
        ELSE EncodeFail(e, this, "Request serialization failed")

\* send_response(response): encode, then send.
SendResponse(e, c, response) ==
    LET this == [api |-> "send_response", caller |-> c, value |-> response]
    IN  IF CanEncode(response)
        THEN StartSend(e, this, EncodeResponse(response))
        ELSE EncodeFail(e, this, "Response serialization failed")

\* receive_request(): receive, then decode.
ReceiveRequest(e, c) ==
    StartReceive(e, [api |-> "receive_request", caller |-> c, value |-> NoValue])

\* Mutant: receive_response decodes what it receives as a request.
ReceiveResponseAsRequest(e, c) ==
    StartReceive(e, [api |-> "receive_request", caller |-> c, value |-> NoValue])

\* receive_response() of caller c: receive, then decode.
ReceiveResponse(e, c) ==
    StartReceive(e, [api |-> "receive_response", caller |-> c, value |-> NoValue])

----------------------------------------------------------------------------
(* Notions the properties are stated with                                  *)

RECURSIVE Concat(_)
Concat(seqs) == IF seqs = <<>> THEN <<>> ELSE Head(seqs) \o Concat(Tail(seqs))

IsPrefix(s, t) == Len(s) <= Len(t) /\ s = SubSeq(t, 1, Len(s))

Last(s) == s[Len(s)]

\* The frame of the wire format: 16-bit big-endian length, then the payload.
WireFrame(p) == <<Len(p) \div 256, Len(p) % 256>> \o p

WireFrames(ps) == Concat([i \in 1..Len(ps) |-> WireFrame(ps[i])])

\* The payloads of the calls of a log that returned Ok, in call order.
OkPayloads(log) ==
    LET IsOk(r) == r.kind = "Ok"
        oks == SelectSeq(log, IsOk)
    IN  [i \in 1..Len(oks) |-> oks[i].payload]

\* The payloads of the send calls of e that got past the encoding and the
\* size check, in call order, the running call included.
Attempted(e) ==
    LET Passed(r) == r.kind \notin {"BufferOverflow", "Serialization"}
        done == SelectSeq(sendlog[e], Passed)
    IN  [i \in 1..Len(done) |-> done[i].payload]
        \o (IF pc[e] \in {"write_u16", "write_all", "flush"} THEN <<arg[e]>> ELSE <<>>)

Delivered(e) == OkPayloads(recvlog[e])

----------------------------------------------------------------------------
(* The framing specification: the client sends raw payloads, the server    *)
(* receives them.                                                          *)

Next ==
    \/ \E payload \in Payloads : SendCall("client", payload)
    \/ WriteU16("client")
    \/ WriteAll("client")
    \/ Flush("client")
    \/ \E k \in FailSizes("client") : WriteFail("client", k)
    \/ Transmit("client")
    \/ Close("client")
    \/ ReceiveCall("server")
    \/ ReturnFrame("server")
    \/ \E k \in ReadSizes(Len(wire["client"])) : ReadBuf("server", k)
    \/ ReadEof("server")
    \/ ReadFail("server")

Spec == Init /\ [][Next]_vars

\* A receive call that can go on does go on: the loop of receive_binary
\* runs when the buffer holds a frame, and the stream hands over the bytes
\* in flight, or the end of the stream, to a call waiting in read_buf.
ReceiveStep ==
    \/ ReturnFrame("server")
    \/ \E k \in ReadSizes(Len(wire["client"])) : ReadBuf("server", k)
    \/ ReadEof("server")

\* The client sends the empty payload and the longest of the short ones,
\* and may close; the stream pushes bytes out on its own; the server
\* receives, and a read may fail.
LiveNext ==
    \/ \E payload \in {<<>>, Fill(MaxLen)} : SendCall("client", payload)
    \/ WriteU16("client")
    \/ WriteAll("client")
    \/ Flush("client")
    \/ Transmit("client")
    \/ Close("client")
    \/ ReceiveCall("server")
    \/ ReturnFrame("server")
    \/ \E k \in ReadSizes(Len(wire["client"])) : ReadBuf("server", k)
    \/ ReadEof("server")
    \/ ReadFail("server")

\* The framing specification with a fair stream and executor.
SpecLive == Init /\ [][LiveNext]_vars /\ WF_vars(ReceiveStep)

----------------------------------------------------------------------------
(* The limits specification: on a fresh channel whose stream does not      *)
(* fail, the client makes one send call with a payload of a size around    *)
(* the limits of the header, and the server one receive call.              *)

LimitNext ==
    \/ /\ sendlog["client"] = <<>>
       /\ \E payload \in LimitPayloads : SendCall("client", payload)
    \/ /\ sendlog["client"] = <<>>
       /\ SendRequest("client", "main", LongRequest)
    \/ /\ sendlog["client"] = <<>>
       /\ SendResponse("client", "main", LongResponse)
    \/ WriteU16("client")
    \/ WriteAll("client")
    \/ Flush("client")
    \/ Transmit("client")
    \/ Close("client")
    \/ /\ recvlog["server"] = <<>>
       /\ ReceiveCall("server")
    \/ ReturnFrame("server")
    \/ \E k \in ReadSizes(Len(wire["client"])) : ReadBuf("server", k)
    \/ ReadEof("server")

SpecLimit == Init /\ [][LimitNext]_vars

----------------------------------------------------------------------------
(* The exchange specification: logical callers share the client end; each  *)
(* sends a request and then receives a response.  The server receives a    *)
(* request, answers it, and so on.  The stream does not fail, and hands    *)
(* on what was written when it is flushed.                                 *)

Callers == {"x", "y"}

\* The calls of caller c in a log.
CallsOf(log, c) == Cardinality({i \in 1..Len(log) : log[i].caller = c})

\* Caller c sends a request when it waits for no response.
ClientRequests(c, request) ==
    /\ CallsOf(sendlog["client"], c) = CallsOf(recvlog["client"], c)
    /\ SendRequest("client", c, request)

\* Caller c receives the response when its request is sent.
ClientAwaits(c) ==
    /\ CallsOf(sendlog["client"], c) > CallsOf(recvlog["client"], c)
    /\ ReceiveResponse("client", c)

\* The server takes the next request when it has answered the last.
ServerAwaits ==
    /\ Len(recvlog["server"]) = Len(sendlog["server"])
    /\ ReceiveRequest("server", "main")

\* The server answers the request it has received.
ServerResponds ==
    /\ Len(recvlog["server"]) > Len(sendlog["server"])
    /\ Last(recvlog["server"]).kind = "Ok"
    /\ SendResponse("server", "main", Handle(Last(recvlog["server"]).value))

ExchangeNext ==
    \/ \E c \in Callers, request \in Requests : ClientRequests(c, request)
    \/ \E c \in Callers : ClientAwaits(c)
    \/ ServerAwaits
    \/ ServerResponds
    \/ \E e \in Ends : WriteU16(e)
    \/ \E e \in Ends : WriteAll(e)
    \/ \E e \in Ends : Flush(e)
    \/ \E e \in Ends : ReturnFrame(e)
    \/ \E e \in Ends : \E k \in CoarseSizes(Len(wire[Peer(e)])) : ReadBuf(e, k)

SpecExchange == Init /\ [][ExchangeNext]_vars

----------------------------------------------------------------------------
(* The envelope specification: the client sends requests, responses and a  *)
(* raw payload, among them values that cannot be encoded; the server       *)
(* receives what comes as a request or as a response.                      *)

EnvelopeNext ==
    \/ \E request \in Requests \cup {Unencodable} : SendRequest("client", "main", request)
    \/ \E response \in {Success, Unencodable} : SendResponse("client", "main", response)
    \/ SendCall("client", Fill(MaxLen))
    \/ WriteU16("client")
    \/ WriteAll("client")
    \/ Flush("client")
    \/ ReceiveRequest("server", "main")
    \/ ReceiveResponse("server", "main")
    \/ ReturnFrame("server")
    \/ \E k \in CoarseSizes(Len(wire["client"])) : ReadBuf("server", k)

SpecEnvelope == Init /\ [][EnvelopeNext]_vars

----------------------------------------------------------------------------
(* The cancellation specification: the client sends raw payloads, the      *)
(* server receives them and may drop a receive call that waits for bytes.  *)

CancelNext ==
    \/ \E payload \in SmallPayloads : SendCall("client", payload)
    \/ WriteU16("client")
    \/ WriteAll("client")
    \/ Flush("client")
    \/ ReceiveCall("server")
    \/ ReturnFrame("server")
    \/ \E k \in ReadSizes(Len(wire["client"])) : ReadBuf("server", k)
    \/ Cancel("server")

SpecCancel == Init /\ [][CancelNext]_vars

----------------------------------------------------------------------------
(* Properties                                                              *)

\* C1. Round trip: the payload a receive call returns on the server is
\* byte for byte the payload the client passed to send, for every length
\* 0..65535, the empty payload and the 65535-byte one included.
C1_RoundTrip ==
    \A i \in 1..Len(recvlog["server"]) :
        recvlog["server"][i].kind = "Ok" =>
            /\ Attempted("client") # <<>>
            /\ recvlog["server"][i].payload = Attempted("client")[1]
            /\ Len(recvlog["server"][i].payload) \in 0..65535

\* Witness of C1: a 256-byte payload, whose length takes both header
\* bytes, was sent with success and received byte for byte.
C1_Witness ==
    /\ sendlog["client"] # <<>>
    /\ sendlog["client"][1].kind = "Ok"
    /\ sendlog["client"][1].payload = Fill(256)
    /\ recvlog["server"] # <<>>
    /\ recvlog["server"][1].kind = "Ok"
    /\ recvlog["server"][1].payload = Fill(256)

\* C2. Oversize rejection: send of more than 65535 bytes returns
\* BufferOverflow with the payload's length and hands nothing to the stream,
\* so that the peer sees no byte; a payload of up to 65535 bytes is accepted.
C2_OversizeRejected ==
    /\ \A i \in 1..Len(sendlog["client"]) :
          LET s == sendlog["client"][i]
          IN  /\ s.size > 65535 =>
                    /\ s.kind = "BufferOverflow"
                    /\ s.api = "send" => s.size = 65536
                    /\ s.api = "send_request" => s.size = 65535 + 9
                    /\ s.api = "send_response" => s.size = 65535 + 24
                    /\ out["client"] = <<>>
                    /\ pending["client"] = <<>>
                    /\ wire["client"] = <<>>
                    /\ read_buffer["server"] = <<>>
                    /\ Delivered("server") = <<>>
              /\ s.size <= 65535 => s.kind = "Ok"
    /\ pc["client"] \in {"write_u16", "write_all", "flush"} => Len(arg["client"]) <= 65535

\* Witness of C2: the 65536-byte payload was rejected, and the peer's
\* receive found the stream closed without having read a byte.
C2_Witness ==
    /\ sendlog["client"] # <<>>
    /\ sendlog["client"][1].kind = "BufferOverflow"
    /\ sendlog["client"][1].size = 65536
    /\ recvlog["server"] # <<>>
    /\ recvlog["server"][1].kind = "ChannelClosed"
    /\ read_buffer["server"] = <<>>

\* C3. Fragmentation invariance: however the bytes of the frames are split
\* over the reads, each receive call that returns a payload returns what
\* the code takes from the whole byte stream at the frame's offset, as if
\* the frame had come in a single read; that is the payload sent.
C3_FragmentationInvariance ==
    LET del == Delivered("server")
        Offset(i) == Len(WireFrames(SubSeq(del, 1, i - 1)))
    IN  \A i \in 1..Len(del) :
            /\ Offset(i) + 2 + Len(del[i]) <= Len(out["client"])
            /\ del[i] = FramePayload(Drop(out["client"], Offset(i)))
            /\ del[i] = Attempted("client")[i]

\* Witness of C3: a frame with a 1-byte payload came one byte per read
\* (three reads, the header split), and its payload was returned.
C3_Witness ==
    /\ pc["server"] = "idle"
    /\ Len(recvlog["server"]) = 1
    /\ recvlog["server"][1].kind = "Ok"
    /\ Len(recvlog["server"][1].payload) = 1
    /\ nreads["server"] = 3

\* What the buffer lacks of a frame: a header byte, or bytes of the payload
\* the header announces.
Incomplete(buf) == Len(buf) < 2 \/ Len(buf) < 2 + (buf[1] * 256 + buf[2])

\* C4. Closed-stream detection: when the peer has closed the stream and no
\* byte is left to read while the buffer lacks part of a frame, a receive
\* call that returns does not return a payload, whatever the buffer holds,
\* and keeps the buffer; and ChannelClosed is returned in no other case.
C4_ClosedStreamDetected ==
    [][ Len(recvlog'["server"]) > Len(recvlog["server"]) =>
          LET r == Last(recvlog'["server"])
              atEnd == /\ closed["client"]
                       /\ wire["client"] = <<>>
                       /\ Incomplete(read_buffer["server"])
          IN  /\ atEnd => r.kind \in {"ChannelClosed", "Io"}
                          /\ read_buffer'["server"] = read_buffer["server"]
              /\ r.kind = "ChannelClosed" => atEnd ]_vars

\* Witness of C4: ChannelClosed was returned with a header and one of the
\* two announced payload bytes in the buffer.
C4_Witness ==
    /\ recvlog["server"] # <<>>
    /\ Last(recvlog["server"]).kind = "ChannelClosed"
    /\ Len(read_buffer["server"]) = 3
    /\ pc["server"] = "idle"

\* C5. Ordered, exactly-once delivery: the payloads the receive calls
\* return are, in order, the payloads of the send calls (a prefix of
\* them), and every frame a successful send wrote is either delivered or
\* still queued, whole and in order, behind the delivered ones.
C5_OrderedExactlyOnce ==
    /\ IsPrefix(Delivered("server"), Attempted("client"))
    /\ IsPrefix(WireFrames(OkPayloads(sendlog["client"])),
                WireFrames(Delivered("server")) \o read_buffer["server"] \o wire["client"])

\* Witness of C5: two different payloads were sent with success, their
\* frames came in one read, and two receive calls returned them in order.
C5_Witness ==
    /\ Len(OkPayloads(sendlog["client"])) = 2
    /\ Delivered("server") = OkPayloads(sendlog["client"])
    /\ Delivered("server")[1] # Delivered("server")[2]
    /\ Len(recvlog["server"]) = 2
    /\ nreads["server"] = 0

\* C6. Wire format and flush discipline: what the send calls have handed
\* to the stream is, frame after frame without a gap, the two length bytes
\* [L div 256, L mod 256] and the L payload bytes of each call that wrote;
\* and when send has returned Ok, nothing of it is held back by the stream.
C6_WireFormatAndFlush ==
    LET oks == WireFrames(OkPayloads(sendlog["client"]))
    IN  /\ ~broken["client"] =>
            /\ pc["client"] \in {"idle", "dropped", "write_u16"} => out["client"] = oks
            /\ pc["client"] = "write_all" =>
                  out["client"] = oks \o <<Len(arg["client"]) \div 256, Len(arg["client"]) % 256>>
            /\ pc["client"] = "flush" => out["client"] = oks \o WireFrame(arg["client"])
            /\ pc["client"] \in {"idle", "dropped"} => pending["client"] = <<>>
        /\ IsPrefix(oks, out["client"])

\* Witness of C6: two send calls have returned Ok, the second with a
\* payload, and the peer has not read yet: both frames are in flight.
C6_Witness ==
    /\ Len(OkPayloads(sendlog["client"])) = 2
    /\ OkPayloads(sendlog["client"])[2] # <<>>
    /\ wire["client"] = out["client"]
    /\ pc["client"] = "idle"

SentValues(e) ==
    [i \in 1..Len(sendlog[e]) |-> sendlog[e][i].value]
    \o (IF pc[e] \in {"write_u16", "write_all", "flush"} THEN <<call[e].value>> ELSE <<>>)

\* C8. Envelope round trip: receive_request returns the request that was
\* passed to send_request, receive_response the response that was passed to
\* send_response, of the same variant and with the same items or message;
\* a response is one of Success, Error and Data.
C8_EnvelopeRoundTrip ==
    /\ \A i \in 1..Len(recvlog["server"]) :
          LET r == recvlog["server"][i]
          IN  /\ r.kind = "Ok"
              /\ r.value = SentValues("client")[i]
              /\ r.value.tag = "Request"
    /\ \A i \in 1..Len(recvlog["client"]) :
          LET r == recvlog["client"][i]
              sent == SentValues("server")[i]
          IN  /\ r.kind = "Ok"
              /\ r.value.tag \in {"Success", "Error", "Data"}
              /\ r.value.tag = sent.tag
              /\ sent.tag = "Data" => r.value.items = sent.items
              /\ sent.tag = "Error" => r.value.message = sent.message

\* Witness of C8: the client has received Data with the item "hello" and
\* Error with the message "unknown operation".
C8_Witness ==
    /\ \E i \in 1..Len(recvlog["client"]) :
          /\ recvlog["client"][i].value.tag = "Data"
          /\ recvlog["client"][i].value.items = <<<<104, 101, 108, 108, 111>>>>
    /\ \E i \in 1..Len(recvlog["client"]) :
          /\ recvlog["client"][i].value.tag = "Error"
          /\ recvlog["client"][i].value.message = <<117, 110, 107, 110, 111, 119, 110, 32, 111, 112, 101, 114, 97, 116, 105, 111, 110>>

\* The client's calls strictly alternate: send_request, receive_response,
\* send_request, ...; one request at most is outstanding at any time.
StrictAlternation ==
    /\ \A i \in 1..Len(sendlog["client"]) : sendlog["client"][i].seq = 2 * i - 1
    /\ \A i \in 1..Len(recvlog["client"]) : recvlog["client"][i].seq = 2 * i

\* The i-th response the client has received is the response the server
\* produced for the i-th request of the client.
AnswersRequest(i) ==
    /\ i <= Len(sendlog["client"])
    /\ i <= Len(recvlog["server"])
    /\ i <= Len(sendlog["server"])
    /\ recvlog["client"][i].kind = "Ok"
    /\ recvlog["server"][i].kind = "Ok"
    /\ recvlog["server"][i].value = sendlog["client"][i].value
    /\ sendlog["server"][i].value = Handle(recvlog["server"][i].value)
    /\ recvlog["client"][i].value = sendlog["server"][i].value

\* C9. Program-order correlation: while the client's calls strictly
\* alternate, the i-th response it receives is the server's response to
\* its i-th request, and goes to the caller that sent that request.
C9_ProgramOrderCorrelation ==
    StrictAlternation =>
        \A i \in 1..Len(recvlog["client"]) :
            /\ AnswersRequest(i)
            /\ recvlog["client"][i].caller = sendlog["client"][i].caller

\* Witness of C9: two exchanges, one after the other, with different
\* requests and different responses.
C9_Witness ==
    /\ StrictAlternation
    /\ Len(recvlog["client"]) = 2
    /\ sendlog["client"][1].value # sendlog["client"][2].value
    /\ recvlog["client"][1].value # recvlog["client"][2].value

\* C10. Missing correlation: responses go by the order of the calls on the
\* channel, not by caller.  When the caller of the i-th receive_response
\* is not the caller of the i-th send_request (which takes calls of two
\* callers that do not alternate), it is returned the server's response
\* to the other caller's request.
C10_MismatchUnderConcurrency ==
    \A i \in 1..Len(recvlog["client"]) :
        /\ i <= Len(sendlog["client"])
        /\ recvlog["client"][i].caller # sendlog["client"][i].caller =>
              /\ ~StrictAlternation
              /\ AnswersRequest(i)

\* Witness of C10: caller y has received the response to the request of
\* caller x, which is not the response to its own request.
C10_Witness ==
    \E i, j \in 1..Len(sendlog["client"]) :
        /\ i <= Len(recvlog["client"])
        /\ recvlog["client"][i].caller = "y"
        /\ sendlog["client"][i].caller = "x"
        /\ sendlog["client"][j].caller = "y"
        /\ recvlog["client"][i].value = Handle(sendlog["client"][i].value)
        /\ recvlog["client"][i].value # Handle(sendlog["client"][j].value)

----------------------------------------------------------------------------
(* The transport specification: a name is parsed, a connection of the      *)
(* parsed type is set up and goes through its states.  The channel ends    *)
(* stay as constructed.                                                    *)

TransportInit ==
    /\ ChannelInit
    /\ name \in Names
    /\ parsed = NotParsed
    /\ shown = <<>>
    /\ caps = NoCapabilities
    /\ state = "Disconnected"

\* name.parse::<TransportType>(), lines 67-77.
Parse ==
    /\ parsed = NotParsed
    /\ parsed' = FromStr(name)
    /\ UNCHANGED <<name, shown, caps, state, cvars>>

\* transport_type.to_string(), lines 53-62.
Show ==
    /\ parsed.kind = "Ok"
    /\ shown = <<>>
    /\ shown' = TypeToString(parsed.type)
    /\ UNCHANGED <<name, parsed, caps, state, cvars>>

\* TransportCapabilities::for_transport_type(transport_type), lines 126-161.
Lookup ==
    /\ parsed.kind = "Ok"
    /\ caps = NoCapabilities
    /\ caps' = ForTransportType(parsed.type)
    /\ UNCHANGED <<name, parsed, shown, state, cvars>>

\* The connection, its capabilities looked up, goes from one state to
\* another.
Transition(from, to) ==
    /\ caps # NoCapabilities
    /\ state = from
    /\ state' = to
    /\ UNCHANGED <<name, parsed, shown, caps, cvars>>

\* Where a connection with capabilities c may go from Connected when the
\* transport reports an I/O failure.
AfterIoFailure(c) ==
    IF c.reconnectable THEN {"Reconnecting", "Failed"} ELSE {"Failed"}

ConnectRequested == Transition("Disconnected", "Connecting")

HandshakeSucceeded == Transition("Connecting", "Connected")

HandshakeError == Transition("Connecting", "Failed")

GracefulClose == Transition("Connected", "Disconnected")

IoFailure ==
    /\ caps # NoCapabilities
    /\ \E to \in AfterIoFailure(caps) : Transition("Connected", to)

\* Mutant: a retry counts as connected without a handshake.
RetryToConnected == Transition("Reconnecting", "Connected")

RetryAttempt == Transition("Reconnecting", "Connecting")

RetriesExhausted == Transition("Reconnecting", "Failed")

TransportNext ==
    \/ Parse
    \/ Show
    \/ Lookup
    \/ ConnectRequested
    \/ HandshakeSucceeded
    \/ HandshakeError
    \/ GracefulClose
    \/ IoFailure
    \/ RetryAttempt
    \/ RetriesExhausted

SpecTransport == TransportInit /\ [][TransportNext]_vars

\* The names that are one of the four canonical names but for the case of
\* their letters.
KnownNames ==
    CaseVariants(STR_SSH) \cup CaseVariants(STR_LOCAL) \cup CaseVariants(STR_TCP)
    \cup CaseVariants(STR_WSL)

\* The end of text is word.
EndsWith(text, word) ==
    /\ Len(word) <= Len(text)
    /\ SubSeq(text, Len(text) - Len(word) + 1, Len(text)) = word

\* C11. Transport kind parsing: from_str succeeds exactly for the four
\* canonical names in any case of letters and returns the type whose
\* canonical name is the name in lower case; to_string is its inverse on
\* the four canonical names and on the four types; every other name fails
\* with a ConfigurationError whose reason ends with the name as given.
C11_KindParsing ==
    /\ parsed # NotParsed =>
          /\ parsed.kind = "Ok" <=> name \in KnownNames
          /\ parsed.kind = "Ok" =>
                /\ parsed.type \in TransportTypes
                /\ name \in CaseVariants(TypeToString(parsed.type))
          /\ parsed.kind # "Ok" =>
                /\ parsed.kind = "ConfigurationError"
                /\ EndsWith(parsed.reason, name)
    /\ shown # <<>> =>
          /\ shown \in {STR_SSH, STR_LOCAL, STR_TCP, STR_WSL}
          /\ name \in {STR_SSH, STR_LOCAL, STR_TCP, STR_WSL} => shown = name
          /\ FromStr(shown) = ParseOk(parsed.type)
    /\ \A t \in TransportTypes : FromStr(TypeToString(t)) = ParseOk(t)

\* Witness of C11: "LoCaL" was parsed as Local, whose name is "local".
C11_Witness ==
    /\ name = <<76, 111, 67, 97, 76>>
    /\ parsed = ParseOk("Local")
    /\ shown = STR_LOCAL

\* The table of capabilities, kind by kind.
CapabilityTable(t) ==
    CASE t = "Ssh" ->
            [auto_upload |-> TRUE, port_forwarding |-> TRUE, secure |-> TRUE,
             platform_specific |-> FALSE, reconnectable |-> TRUE, multiplexing |-> TRUE]
      [] t = "Local" ->
            [auto_upload |-> FALSE, port_forwarding |-> FALSE, secure |-> FALSE,
             platform_specific |-> FALSE, reconnectable |-> FALSE, multiplexing |-> FALSE]
      [] t = "Tcp" ->
            [auto_upload |-> FALSE, port_forwarding |-> FALSE, secure |-> FALSE,
             platform_specific |-> FALSE, reconnectable |-> TRUE, multiplexing |-> FALSE]
      [] t = "Wsl" ->
            [auto_upload |-> FALSE, port_forwarding |-> FALSE, secure |-> FALSE,
             platform_specific |-> TRUE, reconnectable |-> FALSE, multiplexing |-> FALSE]

\* C12. Capability totality: for_transport_type is defined for the four
\* types and returns the table's row: Ssh all but platform_specific, Local
\* nothing, Tcp reconnectable only, Wsl platform_specific only; what was
\* looked up depends on the type alone, not on the name it was parsed from.
C12_CapabilityTable ==
    /\ \A t \in TransportTypes :
          /\ DOMAIN ForTransportType(t) =
                {"auto_upload", "port_forwarding", "secure", "platform_specific",
                 "reconnectable", "multiplexing"}
          /\ ForTransportType(t) = CapabilityTable(t)
    /\ caps # NoCapabilities => caps = CapabilityTable(parsed.type)

\* Witness of C12: the capabilities of a connection parsed from "TCP" were
\* looked up: reconnectable, and nothing else.
C12_Witness ==
    /\ name = <<84, 67, 80>>
    /\ caps # NoCapabilities
    /\ caps.reconnectable
    /\ ~caps.secure
    /\ ~caps.multiplexing

\* The legal transitions of a connection.
LegalTransitions ==
    {<<"Disconnected", "Connecting">>, <<"Connecting", "Connected">>,
     <<"Connecting", "Failed">>, <<"Connected", "Disconnected">>,
     <<"Connected", "Reconnecting">>, <<"Connected", "Failed">>,
     <<"Reconnecting", "Connecting">>, <<"Reconnecting", "Failed">>}

\* C13. Connection state machine legality: a connection starts in
\* Disconnected, and every change of its state is one of the eight legal
\* transitions; nothing leads out of Failed, and out of Disconnected only
\* the transition to Connecting.
C13_LegalTransitionsOnly ==
    /\ state = "Disconnected"
    /\ [][/\ state \in ConnectionStates
          /\ state' # state => <<state, state'>> \in LegalTransitions
          /\ state = "Failed" => state' = "Failed"
          /\ state = "Disconnected" => state' \in {"Disconnected", "Connecting"}]_vars

\* Witness of C13: a connection has gone from Disconnected to Failed.
C13_Witness ==
    /\ caps # NoCapabilities
    /\ state = "Failed"

\* C14. Reconnection gating: a connection is in Reconnecting only if its
\* type is reconnectable by for_transport_type, which Ssh and Tcp are and
\* Local and Wsl are not; a connection of type Local or Wsl is never in
\* Reconnecting.
C14_ReconnectionGating ==
    /\ state = "Reconnecting" =>
          /\ caps = ForTransportType(parsed.type)
          /\ caps.reconnectable
          /\ parsed.type \in {"Ssh", "Tcp"}
    /\ parsed.type \in {"Local", "Wsl"} => state # "Reconnecting"

\* Witness of C14: a Tcp connection is in Reconnecting.
C14_Witness ==
    /\ parsed.type = "Tcp"
    /\ state = "Reconnecting"

\* C15. Exact consumption: a receive call takes bytes out of the buffer
\* only when it returns a frame, and then the 2 + L bytes of that frame
\* from the front; what else the buffer holds stays, unchanged and in
\* order, for the next call.  Until then the buffer only grows: the header
\* is looked at, not taken.
C15_ExactConsumption ==
    [][ LET before == read_buffer["server"]
            after == read_buffer'["server"]
        IN  IF Len(recvlog'["server"]) > Len(recvlog["server"])
            THEN LET r == Last(recvlog'["server"])
                 IN  /\ r.kind = "Ok" => before = WireFrame(r.payload) \o after
                     /\ r.kind # "Ok" => after = before
            ELSE IsPrefix(before, after) ]_vars

\* Witness of C15: one read brought a frame and the start of the next; the
\* receive call has returned the frame, the start of the next is in the
\* buffer.
C15_Witness ==
    /\ pc["server"] = "idle"
    /\ Len(recvlog["server"]) = 1
    /\ recvlog["server"][1].kind = "Ok"
    /\ nreads["server"] = 1
    /\ read_buffer["server"] # <<>>
    /\ Incomplete(read_buffer["server"])

\* The payload is the encoding of a value of the type that call api
\* decodes.
Decodable(api, payload) ==
    CASE api = "receive_request" -> \E v \in Requests : EncodeRequest(v) = payload
      [] api = "receive_response" -> \E v \in Responses : EncodeResponse(v) = payload

\* C16. Decode failure consumes the frame: the i-th call of receive_request
\* or receive_response takes the i-th frame, whether it decodes or not.  A
\* frame that does not decode gives Serialization, with a reason that
\* names the request or response deserialization, once: its bytes are out
\* of the buffer, and the next call returns the frame after it.
C16_DecodeFailureConsumes ==
    LET frames == Attempted("client")
        n == Len(recvlog["server"])
    IN  /\ n <= Len(frames)
        /\ out["client"] = WireFrames(SubSeq(frames, 1, n)) \o read_buffer["server"]
                             \o wire["client"] \o pending["client"]
        /\ \A i \in 1..n :
              LET r == recvlog["server"][i]
              IN  IF Decodable(r.api, frames[i])
                  THEN /\ r.kind = "Ok"
                       /\ r.payload = frames[i]
                  ELSE /\ r.kind = "Serialization"
                       /\ r.api = "receive_request" => r.reason = "Request deserialization failed"
                       /\ r.api = "receive_response" => r.reason = "Response deserialization failed"

\* Witness of C16: receive_request failed on a frame that holds a response,
\* and the next receive_request returned the request of the next frame.
C16_Witness ==
    /\ Len(recvlog["server"]) = 2
    /\ recvlog["server"][1].api = "receive_request"
    /\ recvlog["server"][1].kind = "Serialization"
    /\ sendlog["client"][1].value = Success
    /\ recvlog["server"][2].api = "receive_request"
    /\ recvlog["server"][2].kind = "Ok"
    /\ recvlog["server"][2].value = GetClipboard

\* C17. Encode failure writes nothing: a call of send_request or
\* send_response with a value that cannot be encoded returns
\* Serialization, with a reason that names the request or response
\* serialization, and leaves the stream alone: nothing is written, nothing
\* flushed; send runs only for values that were encoded.
C17_EncodeFailureWritesNothing ==
    [][ /\ \A e \in Ends : pc'[e] \in {"write_u16", "write_all", "flush"} => CanEncode(call'[e].value)
        /\ Len(sendlog'["client"]) > Len(sendlog["client"]) =>
              LET r == Last(sendlog'["client"])
              IN  /\ ~CanEncode(r.value) <=> r.kind = "Serialization"
                  /\ r.kind = "Serialization" =>
                        /\ r.api = "send_request" => r.reason = "Request serialization failed"
                        /\ r.api = "send_response" => r.reason = "Response serialization failed"
                        /\ pc["client"] = "idle"
                        /\ UNCHANGED <<pc, arg, out, pending, wire, read_buffer>> ]_vars

\* Witness of C17: after a request that was sent, the stream holding its
\* frame, a send_response has failed with Serialization.
C17_Witness ==
    /\ Len(sendlog["client"]) = 2
    /\ sendlog["client"][1].kind = "Ok"
    /\ sendlog["client"][1].api = "send_request"
    /\ sendlog["client"][2].kind = "Serialization"
    /\ sendlog["client"][2].api = "send_response"
    /\ wire["client"] = WireFrame(sendlog["client"][1].payload)

\* C18. No timeout, eventual return: a receive call returns only with a
\* frame when the buffer holds a complete one, with ChannelClosed when a
\* read finds the stream closed and empty, or with the error of a read;
\* and with a fair stream, a call waiting while the rest of the frame is
\* in flight, or while the peer has closed the stream, returns.
C18_EventualReturn ==
    /\ [][ pc["server"] = "receive_binary" /\ pc'["server"] # "receive_binary" =>
             LET r == Last(recvlog'["server"])
             IN  \/ r.kind = "Ok" /\ ~Incomplete(read_buffer["server"])
                 \/ /\ r.kind = "ChannelClosed"
                    /\ Incomplete(read_buffer["server"])
                    /\ wire["client"] = <<>>
                    /\ closed["client"]
                 \/ r.kind = "Io" /\ Incomplete(read_buffer["server"]) ]_vars
    /\ (/\ pc["server"] = "receive_binary"
        /\ \/ ~Incomplete(read_buffer["server"] \o wire["client"])
           \/ closed["client"])
          ~> pc["server"] = "idle"

\* Witness of C18: a receive call that waited for the header of an empty
\* frame, which came in two reads, has returned it.
C18_Witness ==
    /\ pc["server"] = "idle"
    /\ Len(recvlog["server"]) = 1
    /\ recvlog["server"][1].kind = "Ok"
    /\ recvlog["server"][1].payload = <<>>
    /\ nreads["server"] = 2

\* C19. Frames completed before close are still delivered: ChannelClosed
\* is returned only with no complete frame in the buffer; and when the
\* peer's sends have all succeeded and no read has failed, every frame
\* sent has been returned, in order, by the receive calls before the first
\* ChannelClosed: n frames and a close give n payloads and then
\* ChannelClosed.
C19_DeliveredBeforeClosed ==
    \A i \in 1..Len(recvlog["server"]) :
        recvlog["server"][i].kind = "ChannelClosed" =>
            /\ closed["client"]
            /\ Incomplete(read_buffer["server"])
            /\ (~broken["client"] /\ Faults = 0) =>
                  /\ read_buffer["server"] = <<>>
                  /\ OkPayloads(SubSeq(recvlog["server"], 1, i - 1))
                        = OkPayloads(sendlog["client"])
                  /\ \A j \in 1..(i - 1) :
                        recvlog["server"][j].kind = "ChannelClosed" =>
                            j > Len(OkPayloads(sendlog["client"]))

\* Witness of C19: two frames were sent with success and the stream
\* closed; three receive calls have returned the first payload, the second
\* payload and ChannelClosed.
C19_Witness ==
    /\ Len(OkPayloads(sendlog["client"])) = 2
    /\ closed["client"]
    /\ Len(recvlog["server"]) = 3
    /\ recvlog["server"][1].kind = "Ok"
    /\ recvlog["server"][2].kind = "Ok"
    /\ recvlog["server"][3].kind = "ChannelClosed"

\* C20. A cancelled receive loses no bytes: with receive calls dropped
\* while they wait for bytes, what the sender has written is, byte for
\* byte, the frames of the payloads returned so far, then what the buffer
\* holds, then what is in flight or held back; so the buffer starts at a
\* frame boundary, and the calls that return, return the payloads sent, in
\* order, none left out.  The step that drops a call leaves the buffer as
\* it is.
C20_CancelLosesNothing ==
    /\ IsPrefix(Delivered("server"), Attempted("client"))
    /\ out["client"] = WireFrames(Delivered("server")) \o read_buffer["server"]
                         \o wire["client"] \o pending["client"]
    /\ (recvlog["server"] # <<>> /\ Last(recvlog["server"]).kind = "Cancelled"
        /\ pc["server"] = "idle") =>
            read_buffer["server"] = Last(recvlog["server"]).payload

\* Witness of C20: a receive call was dropped with the header and one of
\* the two payload bytes of a frame in the buffer; the next receive call
\* has returned the two-byte payload.
C20_Witness ==
    /\ Len(recvlog["server"]) = 2
    /\ recvlog["server"][1].kind = "Cancelled"
    /\ Len(recvlog["server"][1].payload) = 3
    /\ recvlog["server"][2].kind = "Ok"
    /\ recvlog["server"][2].payload = Fill(2)
    /\ nreads["server"] = 1

====
